---------------------------- MODULE Spec2Model ----------------------------
(***************************************************************************)
(* A model of create2-address-finder (src/src/main.rs, src/src/lib.rs):    *)
(* argument validation (Config::new), the process entry point (main) and   *)
(* the CPU search engine (cpu): the outer loop that draws a random salt    *)
(* segment, the data-parallel nonce sweep, the two-stage match test and    *)
(* the appends to `efficient_addresses.txt`.                               *)
(*                                                                         *)
(* Strings are sequences of one-character strings, bytes are 0..255.       *)
(* Addresses, hashes, salts and record lines keep their real lengths       *)
(* (20, 32, 32 bytes; 112 characters).  The nonce range and the number of  *)
(* outer iterations are scaled down.                                       *)
(***************************************************************************)
EXTENDS Integers, Sequences, FiniteSets, Bags, TLC

(***************************************************************************)
(* Bounds of the model.                                                    *)
(***************************************************************************)
\* The scaled value of the largest nonce (0xffffffffffff in the program).
MaxNonce == 2
\* The number of outer iterations of cpu's `loop` the model follows.
MaxIters == 2

(***************************************************************************)
(* Characters and strings.                                                 *)
(***************************************************************************)
LowerHex == <<"0","1","2","3","4","5","6","7","8","9","a","b","c","d","e","f">>
UpperHex == <<"0","1","2","3","4","5","6","7","8","9","A","B","C","D","E","F">>
DecDigits == <<"0","1","2","3","4","5","6","7","8","9">>

\* n copies of the two-character string <<a, b>>.
Rep(a, b, n) == [i \in 1..(2 * n) |-> IF i % 2 = 1 THEN a ELSE b]

\* str.starts_with(prefix), slice.starts_with(prefix)
StartsWith(s, prefix) ==
    /\ Len(prefix) <= Len(s)
    /\ SubSeq(s, 1, Len(prefix)) = prefix

\* &s[k..]
From(s, k) == SubSeq(s, k + 1, Len(s))

\* The value of each hex digit, either case.
HexDigits ==
    "0" :> 0 @@ "1" :> 1 @@ "2" :> 2 @@ "3" :> 3 @@ "4" :> 4 @@ "5" :> 5 @@
    "6" :> 6 @@ "7" :> 7 @@ "8" :> 8 @@ "9" :> 9 @@
    "a" :> 10 @@ "b" :> 11 @@ "c" :> 12 @@ "d" :> 13 @@ "e" :> 14 @@ "f" :> 15 @@
    "A" :> 10 @@ "B" :> 11 @@ "C" :> 12 @@ "D" :> 13 @@ "E" :> 14 @@ "F" :> 15

HexChars == DOMAIN HexDigits

\* char::is_ascii_hexdigit
IsAsciiHexdigit(c) == c \in HexChars

\* The value of one hex digit, either case (u8::from_str_radix(_, 16),
\* i64::from_str_radix(_, 16), hex::FromHex).
HexDigitValue(c) == HexDigits[c]

\* An uppercase made by clearing bit 0x20 of the ASCII code, whatever the
\* character: right for a letter, but a digit 0x30..0x39 becomes the control
\* character 0x10..0x19 (a deviation from line 289).
UppercaseByClearingBit5(c) ==
    IF c \in {"a", "b", "c", "d", "e", "f"} THEN UpperHex[HexDigits[c] + 1]
    ELSE IF c \in {"0", "1", "2", "3", "4", "5", "6", "7", "8", "9"}
         THEN <<"^P", "^Q", "^R", "^S", "^T", "^U", "^V", "^W", "^X", "^Y">>[HexDigits[c] + 1]
         ELSE c

\* char::to_uppercase on the characters hex::encode produces: a lowercase
\* letter becomes its capital, any other character stays.
ToUppercase(c) ==
    IF c \in {"a", "b", "c", "d", "e", "f"} THEN UpperHex[HexDigits[c] + 1]
    ELSE c

\* The UTF-8 (ASCII) byte of a lowercase hex character (str::as_bytes).
AsBytes(s) ==
    [i \in 1..Len(s) |->
        LET v == HexDigitValue(s[i])
        IN  IF v < 10 THEN 48 + v ELSE 87 + v]

\* hex::encode: two lowercase hex characters per byte, high nibble first.
HexEncode(bytes) ==
    [i \in 1..(2 * Len(bytes)) |->
        LET b == bytes[(i + 1) \div 2]
        IN  IF i % 2 = 1 THEN LowerHex[(b \div 16) + 1]
                         ELSE LowerHex[(b % 16) + 1]]

\* Vec::from_hex: fails on an odd length or on a character that is no hex
\* digit; otherwise one byte per pair of characters.
FromHex(s) ==
    IF Len(s) % 2 # 0 \/ \E i \in 1..Len(s) : ~IsAsciiHexdigit(s[i])
    THEN [ok |-> FALSE, val |-> <<>>]
    ELSE [ok |-> TRUE,
          val |-> [i \in 1..(Len(s) \div 2) |->
                      16 * HexDigitValue(s[2 * i - 1]) + HexDigitValue(s[2 * i])]]

\* without_prefix: the string from its third character on; panics (unwrap on
\* None) when the string has no third character.
without_prefix(string) ==
    IF Len(string) >= 3
    THEN [ok |-> TRUE, val |-> From(string, 2)]
    ELSE [ok |-> FALSE, val |-> <<>>]

RECURSIVE DecValue(_)
\* The value of a string of decimal digits, capped above the u8 range.
DecValue(s) ==
    IF s = <<>> THEN 0
    ELSE LET hi == DecValue(SubSeq(s, 1, Len(s) - 1))
             d  == (CHOOSE i \in 1..10 : DecDigits[i] = s[Len(s)]) - 1
         IN  IF hi > 255 THEN 256 ELSE 10 * hi + d

\* str::parse::<u8>: an optional `+`, then one or more decimal digits whose
\* value fits eight bits.
ParseU8(s) ==
    LET digits == IF s # <<>> /\ s[1] = "+" THEN From(s, 1) ELSE s
        wellFormed == /\ digits # <<>>
                      /\ \A i \in 1..Len(digits) :
                            \E k \in 1..10 : DecDigits[k] = digits[i]
    IN  IF wellFormed /\ DecValue(digits) <= 255
        THEN [ok |-> TRUE, val |-> DecValue(digits)]
        ELSE [ok |-> FALSE, val |-> 0]

(***************************************************************************)
(* Config::new (lib.rs 60-168).  `args` is the argument list after the     *)
(* program name, which line 62 skips.  The result is Ok with the Config,   *)
(* Err with the message, or Panic when without_prefix unwraps None.        *)
(***************************************************************************)
NoConfig ==
    [factory_address |-> <<>>, calling_address |-> <<>>,
     init_code_hash |-> <<>>, gpu_device |-> 0, target_start_string |-> <<>>]

Err(msg) == [kind |-> "Err", msg |-> msg, config |-> NoConfig]

\* Lines 90-100: `if s.starts_with("0x") { s = without_prefix(s) }`.
StripPrefix(s) ==
    IF StartsWith(s, <<"0", "x">>) THEN without_prefix(s)
    ELSE [ok |-> TRUE, val |-> s]

\* to_fixed_20, to_fixed_32, to_fixed_47: the first n bytes of a vector the
\* caller has checked to hold n bytes.
to_fixed(bytes, n) == SubSeq(bytes, 1, n)

ConfigNew(args) ==
    IF Len(args) < 1 THEN Err("didn't get a factory_address argument.")
    ELSE IF Len(args) < 2 THEN Err("didn't get a calling_address argument.")
    ELSE IF Len(args) < 3 THEN Err("didn't get an init_code_hash argument.")
    ELSE IF Len(args) < 4 THEN Err("didn't get an target_start argument.")
    ELSE
    LET target_start_string == args[4]
        gpu_device_string   == IF Len(args) >= 5 THEN args[5] ELSE <<"2", "5", "5">>
        factory_address_string == StripPrefix(args[1])
        calling_address_string == StripPrefix(args[2])
        init_code_hash_string  == StripPrefix(args[3])
        factory_address_vec == FromHex(factory_address_string.val)
        calling_address_vec == FromHex(calling_address_string.val)
        init_code_hash_vec  == FromHex(init_code_hash_string.val)
        gpu_device == ParseU8(gpu_device_string)
        is_not_hex == \E i \in 3..Len(target_start_string) :
                         ~IsAsciiHexdigit(target_start_string[i])
    IN  IF ~factory_address_string.ok \/ ~calling_address_string.ok
           \/ ~init_code_hash_string.ok
        THEN [kind |-> "Panic", msg |-> "called Option::unwrap() on a None value",
              config |-> NoConfig]
        ELSE IF ~StartsWith(target_start_string, <<"0", "x">>)
        THEN Err("target_start argument must start with 0x.")
        ELSE IF ~factory_address_vec.ok
        THEN Err("could not decode factory address argument.")
        ELSE IF ~calling_address_vec.ok
        THEN Err("could not decode calling address argument.")
        ELSE IF ~init_code_hash_vec.ok
        THEN Err("could not decode initialization code hash argument.")
        ELSE IF Len(factory_address_vec.val) # 20
        THEN Err("invalid length for factory address argument.")
        ELSE IF Len(calling_address_vec.val) # 20
        THEN Err("invalid length for calling address argument.")
        ELSE IF Len(init_code_hash_vec.val) # 32
        THEN Err("invalid length for initialization code hash argument.")
        ELSE IF ~gpu_device.ok
        THEN Err("invalid gpu device value.")
        ELSE IF is_not_hex
        THEN Err("invalid target address start provided, not hex string.")
        ELSE [kind |-> "Ok", msg |-> "",
              config |-> [factory_address |-> to_fixed(factory_address_vec.val, 20),
                          calling_address |-> to_fixed(calling_address_vec.val, 20),
                          init_code_hash  |-> to_fixed(init_code_hash_vec.val, 32),
                          gpu_device      |-> gpu_device.val,
                          target_start_string |-> target_start_string]]

(***************************************************************************)
(* Keccak-256 (tiny_keccak), a primitive the program trusts.  The model    *)
(* keeps its interface: a state that absorbs bytes in order (update), can  *)
(* be cloned, and is finalized into a 32-byte digest.  The permutation is  *)
(* replaced by a small polynomial fold, so that a digest depends on every  *)
(* absorbed byte and on their order.                                       *)
(***************************************************************************)
\* Keccak::new_keccak256(): the state that has absorbed nothing.
new_keccak256 == 0

\* a * b modulo 65521 for a, b below 65521, within 32-bit arithmetic.
MulMod(a, b) ==
    ((a % 256) * b + (a \div 256) * ((256 * b) % 65521)) % 65521

RECURSIVE Power131(_)
\* 131^k modulo 65521.
Power131(k) ==
    IF k = 0 THEN 1
    ELSE LET half == Power131(k \div 2)
         IN  MulMod(MulMod(half, half), IF k % 2 = 1 THEN 131 ELSE 1)

\* The powers for every length the program absorbs (85 is the longest).
Powers == [k \in 0..85 |-> Power131(k)] @@ <<>>

\* Keccak::update: absorb the bytes into the state, first to last.  Folding
\* state <- (131 * state + byte + 1) % 65521 over the bytes b1 .. bn gives
\* state * 131^n + (b1 + 1) * 131^(n-1) + ... + (bn + 1), which is how it
\* is computed here: absorbing a \o b is absorbing a and then b.
update(state, bytes) ==
    LET n == Len(bytes)
    IN  IF n = 0 THEN state
        ELSE (MulMod(state, Powers[n])
              + BagCardinality([i \in 1..n |->
                                  ((bytes[i] + 1) * Powers[n - i]) % 65521]))
             % 65521

\* Keccak::finalize: the 32-byte digest of what the state absorbed.
finalize(state) ==
    [i \in 1..32 |->
        (((state + 13 * i) % 251) * ((state \div 251) + 2 * i + 1)) % 256]

\* A one-shot hash of a whole message.
Keccak256(message) == finalize(update(new_keccak256, message))

(***************************************************************************)
(* Deviations from cpu's steps.  Each property below that holds of cpu is  *)
(* shown to fail when one step is replaced by its deviation here.          *)
(***************************************************************************)
\* char::to_lowercase on hex characters.
ToLowercase(c) ==
    IF c \in {"A", "B", "C", "D", "E", "F"} THEN LowerHex[HexDigits[c] + 1]
    ELSE c

Lowercase(s) == [i \in 1..Len(s) |-> ToLowercase(s[i])]

\* A stage 1 that lets every candidate through.
Stage1PassesAll(last_20_bytes, target_start) == TRUE

\* A stage 2 that compares without regard to letter case.
Stage2IgnoringCase(checksum_address, target_start_string) ==
    StartsWith(Lowercase(checksum_address), Lowercase(target_start_string))

\* A salt sliced from the start of the header's hex instead of from the
\* caller's address: factory ++ the first six bytes of the caller ++ nonce.
FullSaltFromHeaderStart(vec, salt_incremented_segment) ==
    <<"0", "x">> \o SubSeq(HexEncode(vec), 3, 54) \o HexEncode(salt_incremented_segment)

\* A digest that absorbs the footer before the nonce.
DigestFooterFirst(header_state, salt_incremented_segment, footer) ==
    finalize(update(update(header_state, footer), salt_incremented_segment))

(***************************************************************************)
(* The pure steps of cpu (lib.rs 185-329).                                 *)
(***************************************************************************)
CONTROL_CHARACTER == 255

\* const MAX_INCREMENTER: u64 = 0xffffffffffff, scaled to MaxNonce.
MAX_INCREMENTER == MaxNonce

\* (0..MAX_INCREMENTER): a half-open range, MAX_INCREMENTER itself excluded.
NonceRange == 0..(MAX_INCREMENTER - 1)

RECURSIVE ShiftRight8(_, _)
\* x >> (8 * k)
ShiftRight8(x, k) == IF k = 0 THEN x ELSE ShiftRight8(x \div 256, k - 1)

\* u64_to_fixed_6: the six low bytes of x, most significant first.
u64_to_fixed_6(x) ==
    << ShiftRight8(x, 5) % 256, ShiftRight8(x, 4) % 256, ShiftRight8(x, 3) % 256,
       ShiftRight8(x, 2) % 256, ShiftRight8(x, 1) % 256, x % 256 >>

\* u8::from_str_radix(chunk, 16) on a chunk of one or two hex digits.
FromStrRadix16(chunk) ==
    IF Len(chunk) = 1 THEN HexDigitValue(chunk[1])
    ELSE 16 * HexDigitValue(chunk[1]) + HexDigitValue(chunk[2])

\* A decoding that takes whole pairs of digits only and leaves out a last
\* single digit (a deviation from lines 197-198).
TargetBytesWholePairs(target_start_string) ==
    LET start_without_prefix == From(target_start_string, 2)
        n == Len(start_without_prefix)
    IN  [i \in 1..(n \div 2) |->
            FromStrRadix16(SubSeq(start_without_prefix, 2 * i - 1, 2 * i))]

\* Lines 193-206: the target's digits after `0x`, cut into chunks of two
\* characters (the last chunk holds one character when the count is odd),
\* each chunk parsed as a byte.
TargetBytes(target_start_string) ==
    LET start_without_prefix == From(target_start_string, 2)
        n == Len(start_without_prefix)
    IN  [i \in 1..((n + 1) \div 2) |->
            FromStrRadix16(SubSeq(start_without_prefix, 2 * i - 1,
                                  IF 2 * i <= n THEN 2 * i ELSE n))]

\* Lines 219-226: 0xff ++ factory ++ caller ++ salt_random_segment.
HeaderVec(cfg, segment) ==
    <<CONTROL_CHARACTER>> \o cfg.factory_address \o cfg.calling_address \o segment

\* Lines 229-232: the hash state that absorbed the 47-byte header.
HashHeader(vec) == update(new_keccak256, to_fixed(vec, 47))

\* Lines 240-248: clone the header state, absorb the nonce, then the footer,
\* and finalize.
DigestOf(header_state, salt_incremented_segment, footer) ==
    finalize(update(update(header_state, salt_incremented_segment), footer))

\* Line 250: &res[12..32]
Last20(res) == SubSeq(res, 13, 32)

\* Line 253: last_20_bytes.starts_with(target_start)
Stage1(last_20_bytes, target_start) == StartsWith(last_20_bytes, target_start)

\* Lines 264-267: "0x" ++ hex(header_vec)[42..] ++ hex(nonce).
FullSalt(vec, salt_incremented_segment) ==
    <<"0", "x">> \o From(HexEncode(vec), 42) \o HexEncode(salt_incremented_segment)

\* Lines 284-300: each character of the lowercase address is uppercased iff
\* the same-numbered hex character of the hash is above 7.
Checksummed[address \in Seq(STRING), address_hash \in Seq(STRING)] ==
    [nibble \in 1..Len(address) |->
        IF HexDigitValue(address_hash[nibble]) > 7
        THEN ToUppercase(address[nibble])
        ELSE address[nibble]]

\* Lines 260-302: the address in hex, checksummed against the hash of its
\* lowercase string, behind "0x".
ChecksumAddress(address_bytes) ==
    <<"0", "x">> \o
    Checksummed[HexEncode(address_bytes),
                HexEncode(Keccak256(AsBytes(HexEncode(address_bytes))))]

\* Lines 308-309: checksum_address.starts_with(&config.target_start_string)
Stage2(checksum_address, target_start_string) ==
    StartsWith(checksum_address, target_start_string)

\* Line 313: format!("{} => {}", full_salt, checksum_address)
Output(full_salt, checksum_address) ==
    full_salt \o <<" ", "=", ">", " ">> \o checksum_address

\* Lines 255 and 311: a candidate is recorded when it passes stage 1 and,
\* then, stage 2.
Confirmed(last_20_bytes, target_start, target_start_string) ==
    /\ Stage1(last_20_bytes, target_start)
    /\ Stage2(ChecksumAddress(last_20_bytes), target_start_string)

(***************************************************************************)
(* The inputs the model draws from.                                        *)
(***************************************************************************)
Str0x == <<"0", "x">>
FactoryHex == Rep("1", "a", 20)
CallerHex  == Rep("0", "0", 19) \o <<"c", "4">>
InitHashHex == Rep("e", "7", 32)

\* The 6-byte segments rng.gen_iter::<u8>().take(6) may yield in the model.
RandomSegments == { <<198, 122, 128, 143, 228, 121>>, <<112, 36, 131, 43, 115, 36>> }

\* The rayon worker threads.
Workers == {"w1", "w2"}

\* The argument lists (after the program name) a run may be started with:
\* a valid one, and lists that differ from it in one argument.
GoodArgs == <<Str0x \o FactoryHex, CallerHex, Str0x \o InitHashHex, Str0x \o <<"E", "E">> >>

WithArg(k, arg) == [GoodArgs EXCEPT ![k] = arg]

TargetChoices ==
    { Str0x \o <<"E">>,                 \* an odd number of digits
      Str0x \o <<"E", "E", "E">>,       \* an odd number of digits
      <<"E", "E">>,                     \* no 0x marker
      Str0x \o <<"E", "g">> }           \* not a hex digit

AddressChoices ==
    { Str0x,                                    \* nothing after the marker
      Str0x \o Rep("1", "a", 19),               \* 19 bytes
      Rep("1", "a", 21),                        \* 21 bytes
      Rep("1", "a", 19) \o <<"1">>,             \* an odd number of digits
      Rep("1", "a", 19) \o <<"1", "g">> }       \* not a hex digit

HashChoices ==
    { Str0x,
      Str0x \o Rep("e", "7", 31),               \* 31 bytes
      Rep("e", "7", 33),                        \* 33 bytes
      Rep("e", "7", 31) \o <<"z", "7">> }       \* not a hex digit

DeviceChoices ==
    { <<"2", "5", "5">>, <<"0">>, <<"2", "5", "6">>, <<"c", "p", "u">> }

ArgLists ==
    {GoodArgs}
    \cup { SubSeq(GoodArgs, 1, k) : k \in 0..3 }
    \cup { WithArg(1, a) : a \in AddressChoices }
    \cup { WithArg(2, a) : a \in AddressChoices }
    \cup { WithArg(3, h) : h \in HashChoices }
    \cup { WithArg(4, t) : t \in TargetChoices }
    \cup { GoodArgs \o <<d>> : d \in DeviceChoices }

(***************************************************************************)
(* The state of one run of the program.                                    *)
(***************************************************************************)
VARIABLES
    args,                \* the command line, after the program name
    pc,                  \* where the main thread is
    exit_code,           \* the process's exit status, -1 while it runs
    config,              \* the Config that Config::new returned
    file_open,           \* `file` of cpu is open (the store exists)
    locked,              \* the open file description holds the flock
    store,               \* efficient_addresses.txt: the writes made, in order
    stdout,              \* the lines println! wrote, as a bag
    target_start,        \* cpu's `bytes`: the decoded target
    iter,                \* outer iterations begun
    salt_random_segment, \* the current iteration's random segment
    header_vec,          \* the current iteration's header
    hash_header,         \* the hash state that absorbed the header
    evaluated,           \* how often each nonce was handed to the closure
    wpc,                 \* where each worker is inside the closure
    wnonce,              \* the nonce a worker is recording
    woutput              \* the record line a worker is recording

vars == <<args, pc, exit_code, config, file_open, locked, store, stdout,
          target_start, iter, salt_random_segment, header_vec, hash_header,
          evaluated, wpc, wnonce, woutput>>

mainVars == <<args, config, target_start>>
sweepVars == <<iter, salt_random_segment, header_vec, hash_header>>
workerVars == <<evaluated, wpc, wnonce, woutput>>
ioVars == <<file_open, locked, store, stdout>>

\* The state when main is entered with one of the given argument lists.
InitWith(argLists) ==
    /\ args \in argLists
    /\ pc = "main"
    /\ exit_code = -1
    /\ config = NoConfig
    /\ file_open = FALSE
    /\ locked = FALSE
    /\ store = <<>>
    /\ stdout = EmptyBag
    /\ target_start = <<>>
    /\ iter = 0
    /\ salt_random_segment = <<>>
    /\ header_vec = <<>>
    /\ hash_header = new_keccak256
    /\ evaluated = [n \in 0..MAX_INCREMENTER |-> 0]
    /\ wpc = [w \in Workers |-> "idle"]
    /\ wnonce = [w \in Workers |-> 0]
    /\ woutput = [w \in Workers |-> <<>>]

Init == InitWith(ArgLists)

\* process::exit(code), or the exit status of a panic (101).
Exit(code) ==
    /\ pc' = "exited"
    /\ exit_code' = code

(***************************************************************************)
(* main (main.rs 8-25).                                                    *)
(***************************************************************************)
\* Lines 9-12: Config::new failed; the message is printed and the process
\* exits with 1.
MainConfigErr ==
    /\ pc = "main"
    /\ ConfigNew(args).kind = "Err"
    /\ Exit(1)
    /\ UNCHANGED <<mainVars, sweepVars, workerVars, ioVars>>

\* Config::new panicked inside without_prefix: the process ends with the
\* exit status of a panic.
MainConfigPanic ==
    /\ pc = "main"
    /\ ConfigNew(args).kind = "Panic"
    /\ Exit(101)
    /\ UNCHANGED <<mainVars, sweepVars, workerVars, ioVars>>

\* Lines 14-15: the configuration is valid and names no GPU; cpu is entered.
MainCpu ==
    /\ pc = "main"
    /\ ConfigNew(args).kind = "Ok"
    /\ ConfigNew(args).config.gpu_device = 255
    /\ config' = ConfigNew(args).config
    /\ pc' = "cpu"
    /\ UNCHANGED <<args, exit_code, target_start, sweepVars, workerVars, ioVars>>

\* Lines 19-24: a GPU device was named; the gpu call is commented out, so
\* main returns.
MainGpu ==
    /\ pc = "main"
    /\ ConfigNew(args).kind = "Ok"
    /\ ConfigNew(args).config.gpu_device # 255
    /\ config' = ConfigNew(args).config
    /\ Exit(0)
    /\ UNCHANGED <<args, target_start, sweepVars, workerVars, ioVars>>

(***************************************************************************)
(* cpu (lib.rs 185-329).                                                   *)
(***************************************************************************)
\* Lines 187-206: the store is created or opened for appending and the
\* target is decoded.
CpuOpen ==
    /\ pc = "cpu"
    /\ file_open' = TRUE
    /\ target_start' = TargetBytes(config.target_start_string)
    /\ pc' = "loop"
    /\ UNCHANGED <<args, exit_code, config, locked, store, stdout,
                   sweepVars, workerVars>>

\* Line 191: the store cannot be created or opened; expect panics.
CpuOpenFail ==
    /\ pc = "cpu"
    /\ Exit(101)
    /\ UNCHANGED <<mainVars, sweepVars, workerVars, ioVars>>

\* Lines 215-238: one outer iteration begins: a fresh random segment, the
\* header, the hash state over the header, and a new sweep of the range.
OuterIteration ==
    /\ pc = "loop"
    /\ iter < MaxIters
    /\ \E segment \in RandomSegments :
          /\ salt_random_segment' = segment
          /\ header_vec' = HeaderVec(config, segment)
          /\ hash_header' = HashHeader(HeaderVec(config, segment))
    /\ iter' = iter + 1
    /\ evaluated' = [n \in 0..MAX_INCREMENTER |-> 0]
    /\ pc' = "sweep"
    /\ UNCHANGED <<mainVars, exit_code, ioVars, wpc, wnonce, woutput>>

\* The checksummed address of nonce n under the current header.
AddressOf(n) ==
    Last20(DigestOf(hash_header, u64_to_fixed_6(n), config.init_code_hash))

\* The record line of nonce n under the current header.
RecordOf(n) ==
    Output(FullSalt(header_vec, u64_to_fixed_6(n)), ChecksumAddress(AddressOf(n)))

\* A closure that absorbs the nonce into the hash state all workers share
\* instead of into its own clone (a deviation from line 240).
DiscardOnSharedState(n) ==
    /\ pc = "sweep"
    /\ n \in NonceRange
    /\ evaluated[n] = 0
    /\ \E w \in Workers : wpc[w] = "idle"
    /\ ~Confirmed(AddressOf(n), target_start, config.target_start_string)
    /\ evaluated' = [evaluated EXCEPT ![n] = @ + 1]
    /\ hash_header' = update(hash_header, u64_to_fixed_6(n))
    /\ UNCHANGED <<mainVars, pc, exit_code, iter, salt_random_segment, header_vec,
                   ioVars, wpc, wnonce, woutput>>

\* Lines 238-311, a candidate that is not confirmed: the closure returns.
Discard(n) ==
    /\ pc = "sweep"
    /\ n \in NonceRange
    /\ evaluated[n] = 0
    /\ \E w \in Workers : wpc[w] = "idle"
    /\ ~Confirmed(AddressOf(n), target_start, config.target_start_string)
    /\ evaluated' = [evaluated EXCEPT ![n] = @ + 1]
    /\ UNCHANGED <<mainVars, pc, exit_code, sweepVars, ioVars, wpc, wnonce, woutput>>

\* Lines 238-314, a confirmed candidate: the record is formatted and
\* printed to stdout; the append to the store follows.
Confirm(n) ==
    /\ pc = "sweep"
    /\ n \in NonceRange
    /\ evaluated[n] = 0
    /\ Confirmed(AddressOf(n), target_start, config.target_start_string)
    /\ evaluated' = [evaluated EXCEPT ![n] = @ + 1]
    /\ \E output \in {RecordOf(n)} :
          /\ stdout' = stdout (+) SetToBag({output})
          /\ \E w \in Workers :
                /\ wpc[w] = "idle"
                /\ wnonce' = [wnonce EXCEPT ![w] = n]
                /\ woutput' = [woutput EXCEPT ![w] = output]
                /\ wpc' = [wpc EXCEPT ![w] = "lock"]
    /\ UNCHANGED <<mainVars, pc, exit_code, sweepVars, file_open, locked, store>>

\* Line 317: file.lock_exclusive() is flock(fd, LOCK_EX) on the one file
\* description every worker shares.  The lock belongs to the description:
\* the call returns at once when the description already holds it.
LockExclusive(w) ==
    /\ wpc[w] = "lock"
    /\ pc = "sweep"
    /\ locked' = TRUE
    /\ wpc' = [wpc EXCEPT ![w] = "write"]
    /\ UNCHANGED <<mainVars, pc, exit_code, sweepVars, file_open, store, stdout,
                   evaluated, wnonce, woutput>>

\* Line 320: writeln!(&file, "{}", &output) formats into an unbuffered
\* File: the record's text goes out in one write on the O_APPEND
\* descriptor ...
WriteRecord(w) ==
    /\ wpc[w] = "write"
    /\ pc = "sweep"
    /\ store' = Append(store, woutput[w])
    /\ wpc' = [wpc EXCEPT ![w] = "newline"]
    /\ UNCHANGED <<mainVars, pc, exit_code, sweepVars, file_open, locked, stdout,
                   evaluated, wnonce, woutput>>

\* ... and the newline that ends the line in a second write.
WriteNewline(w) ==
    /\ wpc[w] = "newline"
    /\ pc = "sweep"
    /\ store' = Append(store, <<"\n">>)
    /\ wpc' = [wpc EXCEPT ![w] = "unlock"]
    /\ UNCHANGED <<mainVars, pc, exit_code, sweepVars, file_open, locked, stdout,
                   evaluated, wnonce, woutput>>

\* Line 324: file.unlock() is flock(fd, LOCK_UN): the description's lock is
\* dropped, and the closure returns.
Unlock(w) ==
    /\ wpc[w] = "unlock"
    /\ pc = "sweep"
    /\ locked' = FALSE
    /\ wpc' = [wpc EXCEPT ![w] = "idle"]
    /\ UNCHANGED <<mainVars, pc, exit_code, sweepVars, file_open, store, stdout,
                   evaluated, wnonce, woutput>>

\* Where a worker stands after a panic at one of the closure's I/O calls.
PanickedAt(at) ==
    CASE at = "lock"    -> "panicked_lock"
      [] at = "write"   -> "panicked_write"
      [] at = "newline" -> "panicked_newline"
      [] at = "unlock"  -> "panicked_unlock"

Panicked(w) ==
    wpc[w] \in {"panicked_lock", "panicked_write", "panicked_newline",
                "panicked_unlock"}

\* Lines 317, 321, 324: lock_exclusive, the write or unlock returned an
\* error; expect panics and the worker leaves the closure where it stands.
IoPanic(w) ==
    /\ wpc[w] \in {"lock", "write", "newline", "unlock"}
    /\ pc = "sweep"
    /\ wpc' = [wpc EXCEPT ![w] = PanickedAt(wpc[w])]
    /\ UNCHANGED <<mainVars, pc, exit_code, sweepVars, ioVars, evaluated,
                   wnonce, woutput>>


\* A sweep that returns as soon as no closure is running, whether or not
\* candidates of the range remain (a deviation from lines 235-238).
SweepDoneEarly ==
    /\ pc = "sweep"
    /\ \A w \in Workers : wpc[w] = "idle"
    /\ pc' = "loop"
    /\ UNCHANGED <<mainVars, exit_code, sweepVars, workerVars, ioVars>>

\* Lines 235-238 and 215: for_each returns when the range is exhausted and
\* every closure has returned; the loop goes round.
SweepDone ==
    /\ pc = "sweep"
    /\ \A n \in NonceRange : evaluated[n] > 0
    /\ \A w \in Workers : wpc[w] = "idle"
    /\ pc' = "loop"
    /\ UNCHANGED <<mainVars, exit_code, sweepVars, workerVars, ioVars>>

\* A panic that is caught where the sweep ends, the loop going round as
\* after a sweep without failure (a deviation from lines 317-324).
SweepPanicCaught ==
    /\ pc = "sweep"
    /\ \E w \in Workers : Panicked(w)
    /\ \A w \in Workers : wpc[w] = "idle" \/ Panicked(w)
    /\ pc' = "loop"
    /\ UNCHANGED <<mainVars, exit_code, sweepVars, workerVars, ioVars>>

\* A panic in a closure: rayon lets the closures that are running return,
\* then resumes the panic in cpu; `file` is dropped (which gives up the
\* description and its lock) and the process ends with status 101.
SweepPanic ==
    /\ pc = "sweep"
    /\ \E w \in Workers : Panicked(w)
    /\ \A w \in Workers : wpc[w] = "idle" \/ Panicked(w)
    /\ file_open' = FALSE
    /\ locked' = FALSE
    /\ Exit(101)
    /\ UNCHANGED <<mainVars, sweepVars, workerVars, store, stdout>>

Next ==
    \/ MainConfigErr
    \/ MainConfigPanic
    \/ MainCpu
    \/ MainGpu
    \/ CpuOpen
    \/ CpuOpenFail
    \/ OuterIteration
    \/ \E n \in NonceRange : Discard(n)
    \/ \E n \in NonceRange : Confirm(n)
    \/ \E w \in Workers : LockExclusive(w)
    \/ \E w \in Workers : WriteRecord(w)
    \/ \E w \in Workers : WriteNewline(w)
    \/ \E w \in Workers : Unlock(w)
    \/ \E w \in Workers : IoPanic(w)
    \/ SweepDone
    \/ SweepPanic

Spec == Init /\ [][Next]_vars

\* A step of worker w inside the append of a record.
WorkerStep(w) ==
    LockExclusive(w) \/ WriteRecord(w) \/ WriteNewline(w) \/ Unlock(w) \/ IoPanic(w)

\* The threads of the process keep running: a worker inside the append
\* takes its next step in the end, and a panic that can be resumed is
\* resumed in the end.
FairSpec ==
    Spec /\ (\A w \in Workers : WF_vars(WorkerStep(w))) /\ WF_vars(SweepPanic)

(***************************************************************************)
(* The program on one thread (RAYON_NUM_THREADS=1), started with valid     *)
(* arguments of several kinds: the sweep calls the closure for the nonces  *)
(* in ascending order and each call runs to its end before the next, so    *)
(* lock, write and unlock of one record happen with no other call between. *)
(***************************************************************************)
OtherFactoryHex == Rep("9", "f", 20)
OtherCallerHex == Rep("4", "b", 20)
OtherInitHashHex == Rep("0", "d", 32)

OtherTargets ==
    { Str0x \o <<"E", "E">>, Str0x \o <<"E", "e">>, Str0x \o <<"e", "e">>,
      Str0x \o <<"E">>, Str0x }

SingleThreadArgLists ==
    { <<factory, caller, hash, target>> :
         factory \in {Str0x \o FactoryHex, OtherFactoryHex},
         caller \in {CallerHex, Str0x \o OtherCallerHex},
         hash \in {Str0x \o InitHashHex, OtherInitHashHex},
         target \in OtherTargets }

SingleThreadInit == InitWith(SingleThreadArgLists)

\* Lines 238-325, one call of the closure from its first statement to its
\* last: the candidate is derived and tested and, when confirmed, printed
\* and appended to the store as one line.
Closure(n) ==
    /\ pc = "sweep"
    /\ n \in NonceRange
    /\ evaluated[n] = 0
    /\ \A m \in NonceRange : m < n => evaluated[m] > 0
    /\ evaluated' = [evaluated EXCEPT ![n] = @ + 1]
    /\ IF Confirmed(AddressOf(n), target_start, config.target_start_string)
       THEN \E output \in {RecordOf(n)} :
               /\ stdout' = stdout (+) SetToBag({output})
               /\ store' = store \o <<output, <<"\n">> >>
       ELSE UNCHANGED <<stdout, store>>
    /\ UNCHANGED <<mainVars, pc, exit_code, sweepVars, file_open, locked,
                   wpc, wnonce, woutput>>

SingleThreadNext ==
    \/ MainCpu
    \/ CpuOpen
    \/ OuterIteration
    \/ \E n \in NonceRange : Closure(n)
    \/ SweepDone

SingleThreadSpec == SingleThreadInit /\ [][SingleThreadNext]_vars

(***************************************************************************)
(* Reading the run's output.                                               *)
(***************************************************************************)
Newline == <<"\n">>

\* The record texts written to the store.
StoreRecords == { store[i] : i \in 1..Len(store) } \ {Newline}

\* The record lines printed to stdout.
PrintedRecords == BagToSet(stdout)

\* Every record text in the store, and every line a worker is appending,
\* is a line that was printed: the record lines the run has produced are
\* the printed ones.
AppendedWerePrinted ==
    /\ \A i \in 1..Len(store) : store[i] = Newline \/ store[i] \in PrintedRecords
    /\ \A w \in Workers : wpc[w] = "idle" \/ woutput[w] \in PrintedRecords

\* The positions of the store's writes that are a newline.
NewlineAt == { i \in 1..Len(store) : store[i] = Newline }

RECURSIVE Concat(_)
\* The text of a sequence of writes.
Concat(chunks) ==
    IF chunks = <<>> THEN <<>> ELSE chunks[1] \o Concat(Tail(chunks))

\* The text of the line that the newline written at position i ends.
LineEndingAt(i) ==
    LET before == { j \in NewlineAt : j < i }
        first  == IF before = {} THEN 1
                  ELSE (CHOOSE j \in before : \A k \in before : k <= j) + 1
    IN  Concat(SubSeq(store, first, i - 1))

\* The lines of the store (one per newline).
StoreLines == { LineEndingAt(i) : i \in NewlineAt }

\* The parts of a record line `0x<salt> => 0x<address>`.
LineSalt(line) == SubSeq(line, 3, 66)
LineAddress(line) == SubSeq(line, 71, Len(line))

\* The bytes a string of hex digits stands for.
Decoded(hexString) == FromHex(hexString).val

\* The 6-byte big-endian encoding of n (the model's nonces are below 2^32,
\* so the two leading bytes are 0).
BigEndian6(n) ==
    <<0, 0, (n \div 16777216) % 256, (n \div 65536) % 256, (n \div 256) % 256, n % 256>>

\* The salt of candidate n of an iteration that drew `segment`, as the
\* 64 hex characters of caller(20) || segment(6) || nonce(6).
SaltOf(segment, n) ==
    HexEncode(config.calling_address \o segment \o BigEndian6(n))

\* Candidate n of the current iteration has a record line.
Recorded(n) ==
    LET salt == SaltOf(salt_random_segment, n)
    IN  \E line \in PrintedRecords : LineSalt(line) = salt

\* The workers that are between their lock_exclusive call and their unlock
\* call.
InAppend == { w \in Workers : wpc[w] \in {"write", "newline", "unlock"} }

(***************************************************************************)
(* C1.  A record line is produced for a candidate only if its address      *)
(* passed the raw-byte prefix test and the case-sensitive prefix test on   *)
(* the checksummed string: every line of the store was printed to stdout,  *)
(* every line's address begins with the target's bytes and its checksummed *)
(* text begins with the literal target, and the candidate a worker has     *)
(* just confirmed passes both tests as cpu derives it.                     *)
(***************************************************************************)
C1_RecordOnlyAfterBothStages ==
    /\ AppendedWerePrinted
    /\ \A line \in PrintedRecords :
          LET address == LineAddress(line)
              address_bytes == Decoded(From(address, 2))
          IN  /\ StartsWith(address_bytes, target_start)
              /\ StartsWith(address, config.target_start_string)
    /\ \A w \in Workers :
          wpc[w] = "lock" =>
             LET last_20_bytes == AddressOf(wnonce[w])
                 checksum_address == ChecksumAddress(last_20_bytes)
             IN  /\ StartsWith(last_20_bytes, target_start)
                 /\ StartsWith(checksum_address, config.target_start_string)
                 /\ LineAddress(woutput[w]) = checksum_address

\* The store holds a record while a candidate of the running iteration was
\* evaluated and discarded.
C1_Witness ==
    /\ StoreRecords # {}
    /\ \E n \in NonceRange : evaluated[n] > 0 /\ ~Recorded(n)

(***************************************************************************)
(* C2.  When the workers have appended their records (the sweep is over),  *)
(* the store has one line per record and every line is one complete        *)
(* record.  The code does not keep this: the lock does not exclude the     *)
(* other worker (C3) and writeln! writes the text and the newline apart.   *)
(***************************************************************************)
C2_LinesAreCompleteRecords ==
    pc = "loop" =>
       /\ Cardinality(NewlineAt) = BagCardinality(stdout)
       /\ Len(store) = 2 * Cardinality(NewlineAt)
       /\ \A line \in StoreLines : line \in BagToSet(stdout)

(***************************************************************************)
(* C3.  No two workers are between lock_exclusive and unlock at once.      *)
(* The code does not keep this: flock locks belong to the one open file    *)
(* description the workers share.                                          *)
(***************************************************************************)
C3_MutualExclusion == Cardinality(InAppend) <= 1

(***************************************************************************)
(* C4.  A worker that stopped inside the append (the write of the line     *)
(* failed) has released the lock: with no other worker inside an append,   *)
(* the store is not locked.  The code does not keep this: expect panics    *)
(* before unlock is reached.                                               *)
(***************************************************************************)
C4_LockReleasedOnEveryExit ==
    \A w \in Workers :
       /\ pc = "sweep"
       /\ wpc[w] \in {"panicked_write", "panicked_newline"}
       /\ InAppend = {}
       => ~locked

(***************************************************************************)
(* C5.  In each outer iteration every nonce from 0 up to and including     *)
(* MAX_INCREMENTER (2^48 - 1) is evaluated exactly once.  The code does    *)
(* not keep this: the range 0..MAX_INCREMENTER excludes its upper end.     *)
(***************************************************************************)
C5_WholeRangeEvaluated ==
    pc = "loop" /\ iter > 0 => \A n \in 0..MAX_INCREMENTER : evaluated[n] = 1

(***************************************************************************)
(* C6.  Config::new returns an error, no search starts and the store is    *)
(* not opened, for every target that lacks the `0x` marker, has an odd     *)
(* number of digits after it, or has a character after it that is no hex   *)
(* digit.  The code does not keep this: it never looks at the number of    *)
(* digits.                                                                 *)
(***************************************************************************)
MalformedTarget(target) ==
    \/ ~StartsWith(target, <<"0", "x">>)
    \/ Len(From(target, 2)) % 2 = 1
    \/ \E i \in 3..Len(target) : ~IsAsciiHexdigit(target[i])

C6_MalformedTargetRejected ==
    Len(args) >= 4 /\ MalformedTarget(args[4]) =>
       /\ ConfigNew(args).kind = "Err"
       /\ pc \in {"main", "exited"}
       /\ ~file_open
       /\ store = <<>>

(***************************************************************************)
(* C7.  When the factory address or the caller address does not decode to  *)
(* 20 bytes, or the init-code hash does not decode to 32 bytes (with or    *)
(* without `0x`), Config::new returns an error, main exits with code 1     *)
(* and cpu is never entered.  The code does not keep this: an argument     *)
(* that is exactly `0x` panics inside without_prefix.                      *)
(***************************************************************************)
DecodesTo(string, n) ==
    LET digits == IF StartsWith(string, <<"0", "x">>) THEN From(string, 2) ELSE string
    IN  FromHex(digits).ok /\ Len(FromHex(digits).val) = n

C7_BadLengthRejected ==
    /\ Len(args) >= 3
    /\ ~DecodesTo(args[1], 20) \/ ~DecodesTo(args[2], 20) \/ ~DecodesTo(args[3], 32)
    => /\ ConfigNew(args).kind = "Err"
       /\ pc \in {"main", "exited"}
       /\ pc = "exited" => exit_code = 1
       /\ ~file_open
       /\ \A n \in 0..MAX_INCREMENTER : evaluated[n] = 0

(***************************************************************************)
(* C8.  Every record line is `0x` + 64 hex characters + ` => ` + `0x` +    *)
(* 40 hex characters, and the 64 characters decode to caller(20) ||        *)
(* segment(6) || nonce(6) for a segment the generator yields and a nonce   *)
(* of the range, big-endian; the line a worker is appending carries the    *)
(* running iteration's segment and that worker's candidate.                *)
(***************************************************************************)
WellFormedRecord(line) ==
    /\ Len(line) = 112
    /\ SubSeq(line, 1, 2) = <<"0", "x">>
    /\ FromHex(SubSeq(line, 3, 66)).ok
    /\ SubSeq(line, 67, 70) = <<" ", "=", ">", " ">>
    /\ SubSeq(line, 71, 72) = <<"0", "x">>
    /\ FromHex(SubSeq(line, 73, 112)).ok

Create2Message(salt) ==
    <<255>> \o config.factory_address \o salt \o config.init_code_hash

Create2Address(salt) == SubSeq(Keccak256(Create2Message(salt)), 13, 32)

C9_DerivedAddressIsCreate2 ==
    /\ \A n \in NonceRange :
          evaluated[n] > 0 =>
             LET salt == config.calling_address \o salt_random_segment
                            \o BigEndian6(n)
                 message == Create2Message(salt)
             IN  /\ Len(message) = 85
                 /\ AddressOf(n) = SubSeq(Keccak256(message), 13, 32)
    /\ AppendedWerePrinted
    /\ \A line \in PrintedRecords :
          Lowercase(From(LineAddress(line), 2)) =
             HexEncode(Create2Address(Decoded(LineSalt(line))))

\* A candidate was derived and its record stands in the store.
C9_Witness ==
    \E n \in NonceRange :
       /\ evaluated[n] > 0
       /\ \E line \in StoreRecords : LineSalt(line) = SaltOf(salt_random_segment, n)

(***************************************************************************)
(* C10.  Stage 2 is case-sensitive: a candidate that passes stage 1 but    *)
(* whose checksummed string does not begin with the literal target (it     *)
(* differs in the case of a letter) has no record line.                    *)
(***************************************************************************)
\* The first characters of a checksummed address, as many as the target has.
ChecksumPrefix(last_20_bytes) ==
    SubSeq(ChecksumAddress(last_20_bytes), 1, Len(config.target_start_string))

C10_Stage2CaseSensitive ==
    /\ AppendedWerePrinted
    /\ \A n \in NonceRange :
          LET last_20_bytes == AddressOf(n)
          IN  /\ evaluated[n] > 0
              /\ StartsWith(last_20_bytes, target_start)
              /\ ChecksumPrefix(last_20_bytes) # config.target_start_string
              => ~Recorded(n)

\* A candidate that passed stage 1 and differs from the target only in
\* letter case was evaluated.
C10_Witness ==
    \E n \in NonceRange :
       LET last_20_bytes == AddressOf(n)
           prefix == ChecksumPrefix(last_20_bytes)
       IN  /\ evaluated[n] > 0
           /\ StartsWith(last_20_bytes, target_start)
           /\ prefix # config.target_start_string
           /\ Lowercase(prefix) = Lowercase(config.target_start_string)
           /\ ~Recorded(n)

(***************************************************************************)
(* C11.  The outer loop draws a new random segment and absorbs a new       *)
(* header only when the sweep of the current segment is over: every        *)
(* candidate the sweep hands out has been evaluated and no worker is       *)
(* inside the closure.  The header is absorbed once per outer iteration:   *)
(* the state the workers clone is the fresh state updated once with the    *)
(* iteration's header, and it is replaced only by the step that begins the *)
(* next iteration.                                                         *)
(***************************************************************************)
\* A step that begins an outer iteration.
BeginsIteration == iter' # iter

C11_SegmentAfterSweep ==
    [][ /\ BeginsIteration =>
             /\ iter' = iter + 1
             /\ iter > 0 => \A n \in NonceRange : evaluated[n] = 1
             /\ \A w \in Workers : wpc[w] = "idle"
             /\ header_vec' = <<CONTROL_CHARACTER>> \o config.factory_address
                                 \o config.calling_address \o salt_random_segment'
             /\ hash_header' = update(new_keccak256, header_vec')
        /\ ~BeginsIteration =>
             /\ salt_random_segment' = salt_random_segment
             /\ header_vec' = header_vec
             /\ hash_header' = hash_header
      ]_vars

\* A candidate of the second segment has been evaluated.
C11_Witness ==
    /\ iter = 2
    /\ pc = "sweep"
    /\ \E n \in NonceRange : evaluated[n] = 1

(***************************************************************************)
(* C12.  The process ends with exit code zero only on the shutdown of a    *)
(* search that was running; a run whose arguments Config::new refuses and  *)
(* a run in which an I/O call on the store failed end with a non-zero      *)
(* code.                                                                   *)
(***************************************************************************)
\* cpu was entered and an outer iteration of the search began.
SearchWasRunning == file_open /\ iter > 0

C12_ZeroOnlyAfterSearch ==
    pc = "exited" =>
       /\ exit_code = 0 => SearchWasRunning
       /\ ConfigNew(args).kind # "Ok" => exit_code # 0
       /\ (\E w \in Workers : Panicked(w)) => exit_code # 0
       /\ (config # NoConfig /\ config.gpu_device = 255 /\ iter = 0) => exit_code # 0

(***************************************************************************)
(* C13.  A failure to open the store, to lock it, to write a record or to  *)
(* unlock it is fatal.  No outer iteration begins without an open store;   *)
(* once a worker's lock, write or unlock has failed, no further outer      *)
(* iteration begins and the run never returns to the loop, and the process *)
(* ends with a non-zero code.                                              *)
(***************************************************************************)
\* A lock, write or unlock of the store has failed.
StoreFailed == \E w \in Workers : Panicked(w)

LowercaseOfEncoded(last_20_bytes) ==
    Lowercase(From(ChecksumAddress(last_20_bytes), 2))

C14_ChecksumIdempotent ==
    \A n \in NonceRange :
       evaluated[n] > 0 =>
          LET x == AddressOf(n)
              lower == LowercaseOfEncoded(x)
          IN  /\ Len(lower) = 40
              /\ lower = HexEncode(x)
              /\ ChecksumAddress(Decoded(lower)) = ChecksumAddress(x)

\* An address was encoded whose checksummed form holds a capital letter, a
\* small letter, and a digit where the hash's nibble is above 7 (the
\* uppercase there leaves the digit as it is).
C14_Witness ==
    \E n \in NonceRange :
       /\ evaluated[n] > 0
       /\ LET x == AddressOf(n)
              encoded == From(ChecksumAddress(x), 2)
              address_hash == HexEncode(Keccak256(AsBytes(HexEncode(x))))
          IN  /\ \E i \in 1..40 : encoded[i] \in {"A", "B", "C", "D", "E", "F"}
              /\ \E i \in 1..40 : encoded[i] \in {"a", "b", "c", "d", "e", "f"}
              /\ \E i \in 1..40 : /\ encoded[i] \in {"0", "1", "2", "3", "4", "5", "6", "7", "8", "9"}
                                   /\ HexDigitValue(address_hash[i]) > 7

(***************************************************************************)
(* C15.  What a run records does not depend on the order in which the      *)
(* workers evaluate the candidates.  When a sweep is over, the records     *)
(* appended to the store and printed are, as a multiset, the records of    *)
(* the confirmed candidates of the segments drawn, which the configuration *)
(* and the segments alone determine; and no step of a sweep changes the    *)
(* header or the hash state that the workers clone.                        *)
(***************************************************************************)
\* The records of the confirmed candidates of a sweep over `segment`.
RecordsOf(segment) ==
    LET vec == <<CONTROL_CHARACTER>> \o config.factory_address
                  \o config.calling_address \o segment
        state == update(new_keccak256, vec)
        address(n) ==
            SubSeq(finalize(update(update(state, u64_to_fixed_6(n)),
                                   config.init_code_hash)), 13, 32)
    IN  { Output(FullSalt(vec, u64_to_fixed_6(n)), ChecksumAddress(address(n))) :
             n \in { m \in NonceRange :
                        Confirmed(address(m), TargetBytes(config.target_start_string),
                                  config.target_start_string) } }

\* How many times the text `record` was written to the store.
TimesAppended(record) == Cardinality({ i \in 1..Len(store) : store[i] = record })

RECURSIVE SumOver(_, _)
SumOver(f, S) ==
    IF S = {} THEN 0
    ELSE LET x == CHOOSE y \in S : TRUE IN f[x] + SumOver(f, S \ {x})

C15_OrderIndependent ==
    /\ [](pc = "loop" /\ iter > 0 =>
            LET records == [s \in RandomSegments |-> RecordsOf(s)]
            IN  \E sweeps \in [RandomSegments -> 0..iter] :
                   /\ SumOver(sweeps, RandomSegments) = iter
                   /\ sweeps[salt_random_segment] > 0
                   /\ StoreRecords =
                         UNION { records[s] : s \in { t \in RandomSegments : sweeps[t] > 0 } }
                   /\ \A s \in RandomSegments : \A record \in records[s] :
                         sweeps[s] > 0 =>
                            /\ TimesAppended(record) = sweeps[s]
                            /\ CopiesIn(record, stdout) = sweeps[s]
                   /\ Cardinality(NewlineAt) = BagCardinality(stdout))
    /\ [][pc = "sweep" => /\ hash_header' = hash_header
                          /\ header_vec' = header_vec
                          /\ salt_random_segment' = salt_random_segment]_vars

\* A sweep is over in which two workers were inside the append of their
\* records at the same time, the second record's text written first.
C15_Witness ==
    /\ pc = "loop"
    /\ iter = 1
    /\ Len(store) = 4
    /\ LineSalt(store[1]) = SaltOf(salt_random_segment, 1)
    /\ LineSalt(store[2]) = SaltOf(salt_random_segment, 0)

(***************************************************************************)
(* C16.  A target with an odd number of hex digits that Config::new let    *)
(* through.  As claimed: decoding its digits in cpu fails and aborts the   *)
(* run, so no search begins.  As amended: decoding does not fail; the      *)
(* digits are cut into pairs, the last, single digit is decoded as a byte  *)
(* of its own value, and the search begins with those bytes as the         *)
(* raw-byte target.                                                        *)
(***************************************************************************)
\* The run's target has an odd number of hex digits after `0x`.
OddTargetAccepted ==
    /\ config # NoConfig
    /\ config.gpu_device = 255
    /\ Len(config.target_start_string) % 2 = 1

ChecksummedStartsWithTarget(n) ==
    LET checksum_address == ChecksumAddress(AddressOf(n))
    IN  SubSeq(checksum_address, 1, Len(config.target_start_string))
           = config.target_start_string

C17_Stage1IsPureFilter ==
    pc \in {"loop", "sweep"} =>
       \A n \in NonceRange :
          evaluated[n] > 0 =>
             /\ ChecksummedStartsWithTarget(n) =>
                   SubSeq(AddressOf(n), 1, Len(target_start)) = target_start
             /\ Recorded(n) <=> ChecksummedStartsWithTarget(n)

=============================================================================
